---- MODULE Spec2Model ----
(***************************************************************************)
(* Project Omega (crypto screener): the scoring functions, the CSV         *)
(* analysis pipeline, the automated-project record with its                *)
(* has_data_score state flag, and the manual watchlist.                    *)
(*                                                                         *)
(* Numbers.  Scores are reals in the program.  Here every score is an      *)
(* integer count of 1/1200: an integer sub-score s is 1200*s, a 2-decimal  *)
(* value h/100 is 12*h, a mean sum/3 is 400*sum, and the weighted sum      *)
(* 0.25*n + 0.25*t + 0.5*d of such values is again an integer.  Trend      *)
(* slopes and correlations are signed square roots of rationals with       *)
(* arbitrary-precision numerators and denominators (see SqReal below).     *)
(***************************************************************************)
EXTENDS Integers, Sequences, FiniteSets, TLC

\* Absent values.  TLC cannot compare an integer with a string, so the absent
\* value (None / NULL / null) and the not-a-number value are integers that lie
\* outside the range of every score, sub-score and metadata number.
Null == -999999
NaN  == -888888

Abs(x) == IF x < 0 THEN -x ELSE x
Sgn(x) == IF x < 0 THEN -1 ELSE IF x > 0 THEN 1 ELSE 0

(***************************************************************************)
(* Fixed-point scores.                                                     *)
(***************************************************************************)
Unit == 12 * 100                 \* one score point
Cent == 12                       \* 0.01 score point

\* Number.prototype.toFixed(2) followed by parseFloat: the nearest multiple
\* of 0.01 (the values met here are never halfway between two of them).
ToFixed2(x) == ((x + (Cent \div 2)) \div Cent) * Cent

IsNum(x) == x # Null /\ x # NaN

\* parseFloat of a form value (a string): a decimal numeral gives its number,
\* anything else (the empty string of a blank field, a word) gives NaN.
Numerals == <<"0", "1", "2", "3", "4", "5", "6", "7", "8", "9", "10", "11">>

ParseFloat(v) ==
    IF v = "8.0" THEN 8 * Unit
    ELSE IF \E n \in 1..Len(Numerals) : Numerals[n] = v
    THEN Unit * ((CHOOSE n \in 1..Len(Numerals) : Numerals[n] = v) - 1)
    ELSE NaN

\* IEEE arithmetic with NaN: any NaN operand makes the result NaN.
Add3(a, b, c) == IF IsNum(a) /\ IsNum(b) /\ IsNum(c) THEN a + b + c ELSE NaN
Third(a)      == IF IsNum(a) THEN a \div 3 ELSE NaN
Fixed2(a)     == IF IsNum(a) THEN ToFixed2(a) ELSE NaN

\* narrative*0.25 + tokenomics*0.25 + data*0.50 (BR-03)
Weighted_narrative(n, t, d) ==
    IF IsNum(n) /\ IsNum(t) /\ IsNum(d) THEN (2 * n + t + d) \div 4 ELSE NaN
Weighted(n, t, d) ==
    IF IsNum(n) /\ IsNum(t) /\ IsNum(d) THEN (n + t + 2 * d) \div 4 ELSE NaN

(***************************************************************************)
(* Manual scoring (static/app.js).                                         *)
(***************************************************************************)
calculateOmegaScore(project) ==
    LET narrativeScore == Third(Add3(ParseFloat(project.sector_strength),
                                     ParseFloat(project.value_proposition),
                                     ParseFloat(project.backing_team)))
        tokenomicsScore == Third(Add3(ParseFloat(project.valuation_potential),
                                      ParseFloat(project.token_utility),
                                      ParseFloat(project.supply_risk)))
        dataScore == ParseFloat(project.accumulation_signal)
        omegaScore == Weighted(narrativeScore, tokenomicsScore, dataScore)
    IN  [narrative_score  |-> Fixed2(narrativeScore),
         tokenomics_score |-> Fixed2(tokenomicsScore),
         data_score       |-> dataScore,
         omega_score      |-> Fixed2(omegaScore)]

(***************************************************************************)
(* Automated scoring (AS-01, AS-02).  A category label is a sequence of    *)
(* one-character strings so that lower-casing and the blank-to-hyphen      *)
(* replacement are computed, not assumed.                                  *)
(***************************************************************************)
LowerChar(c) ==
    CASE c = "A" -> "a" [] c = "D" -> "d" [] c = "E" -> "e" [] c = "F" -> "f"
      [] c = "G" -> "g" [] c = "I" -> "i" [] c = "L" -> "l" [] c = "M" -> "m"
      [] c = "N" -> "n" [] c = "P" -> "p" [] c = "R" -> "r" [] c = "W" -> "w"
      [] OTHER -> c

StrLower(s) == [i \in 1..Len(s) |-> LowerChar(s[i])]
StrReplaceBlank(s) == [i \in 1..Len(s) |-> IF s[i] = " " THEN "-" ELSE s[i]]

hot_sectors ==
    { <<<<"a","r","t","i","f","i","c","i","a","l","-","i","n","t","e","l","l","i","g","e","n","c","e">>, 9>>,
      <<<<"a","i">>, 9>>,
      <<<<"d","e","p","i","n">>, 9>>,
      <<<<"r","e","a","l","-","w","o","r","l","d","-","a","s","s","e","t","s">>, 9>>,
      <<<<"r","w","a">>, 9>>,
      <<<<"l","a","y","e","r","-","1">>, 7>>,
      <<<<"l","a","y","e","r","-","2">>, 7>>,
      <<<<"g","a","m","i","n","g">>, 7>>,
      <<<<"g","a","m","e","f","i">>, 7>>,
      <<<<"i","n","f","r","a","s","t","r","u","c","t","u","r","e">>, 7>>,
      <<<<"b","l","o","c","k","c","h","a","i","n","-","i","n","f","r","a","s","t","r","u","c","t","u","r","e">>, 7>> }

DefaultSectorScore == 4

calculate_sector_strength(coingecko_category) ==
    LET category == StrReplaceBlank(StrLower(coingecko_category))
        hits == { e \in hot_sectors : e[1] = category }
    IN  IF hits = {} THEN DefaultSectorScore ELSE (CHOOSE e \in hits : TRUE)[2]

calculate_valuation_potential(market_cap_usd) ==
    IF market_cap_usd < 20000000 THEN 10
    ELSE IF market_cap_usd < 50000000 THEN 9
    ELSE IF market_cap_usd < 100000000 THEN 8
    ELSE IF market_cap_usd < 200000000 THEN 7
    ELSE IF market_cap_usd < 500000000 THEN 5
    ELSE IF market_cap_usd < 1000000000 THEN 3
    ELSE 1

\* Python truthiness of a number or None.
Truthy(x) == x # Null /\ x # 0

\* circulation_ratio >= p/100, on the integers circulating and total > 0
RatioAtLeast_exclusive(circulating, total, pct) == circulating * 100 > pct * total
RatioAtLeast(circulating, total, pct) == circulating * 100 >= pct * total

calculate_supply_risk(circulating_supply, total_supply) ==
    IF ~Truthy(total_supply) \/ total_supply <= 0 THEN 1
    ELSE IF RatioAtLeast(circulating_supply, total_supply, 90) THEN 10
    ELSE IF RatioAtLeast(circulating_supply, total_supply, 75) THEN 9
    ELSE IF RatioAtLeast(circulating_supply, total_supply, 50) THEN 7
    ELSE IF RatioAtLeast(circulating_supply, total_supply, 25) THEN 5
    ELSE IF RatioAtLeast(circulating_supply, total_supply, 10) THEN 2
    ELSE 1

NeutralDefault_lowest == 5 - 4
NeutralDefault == 5

\* The record built from one CoinGecko market row.  The pillar scores are
\* plain quotients: this function does not round them.
process_coingecko_data(market_data) ==
    LET category == StrLower(market_data.category)
        sector_strength == calculate_sector_strength(category)
        valuation_potential ==
            IF Truthy(market_data.market_cap)
            THEN calculate_valuation_potential(market_data.market_cap)
            ELSE 1
        supply_risk ==
            IF Truthy(market_data.circulating_supply) /\ Truthy(market_data.total_supply)
            THEN calculate_supply_risk(market_data.circulating_supply,
                                       market_data.total_supply)
            ELSE 1
    IN  [data_source         |-> "automated",
         market_cap          |-> market_data.market_cap,
         circulating_supply  |-> market_data.circulating_supply,
         total_supply        |-> market_data.total_supply,
         sector_strength     |-> sector_strength,
         backing_team        |-> NeutralDefault,
         value_proposition   |-> NeutralDefault,
         valuation_potential |-> valuation_potential,
         token_utility       |-> NeutralDefault,
         supply_risk         |-> supply_risk,
         narrative_score     |-> (Unit * (sector_strength + NeutralDefault + NeutralDefault)) \div 3,
         tokenomics_score    |-> (Unit * (valuation_potential + NeutralDefault + supply_risk)) \div 3,
         data_score          |-> Null,
         omega_score         |-> Null,
         has_data_score      |-> FALSE]

(***************************************************************************)
(* Exact arithmetic for the trend fit.  The sums of a 90-row regression    *)
(* fit in a machine integer, their fourth powers do not: BigNat is a       *)
(* natural number as a little-endian sequence of limbs.                    *)
(***************************************************************************)
LimbBase == 10 * 100

RECURSIVE BigNat(_)
BigNat(n) == IF n = 0 THEN <<>> ELSE <<n % LimbBase>> \o BigNat(n \div LimbBase)

RECURSIVE BigCarry(_, _)
BigCarry(s, c) ==
    IF s = <<>> THEN BigNat(c)
    ELSE LET t == Head(s) + c
         IN  <<t % LimbBase>> \o BigCarry(Tail(s), t \div LimbBase)

\* Sum of the sequence s (by halves, to keep the evaluation shallow)
RECURSIVE SumRange(_, _, _)
SumRange(s, lo, hi) ==
    IF lo > hi THEN 0
    ELSE IF lo = hi THEN s[lo]
    ELSE LET mid == (lo + hi) \div 2
         IN  SumRange(s, lo, mid) + SumRange(s, mid + 1, hi)

SeqSum(s) == SumRange(s, 1, Len(s))

Max2(a, b) == IF a > b THEN a ELSE b
Min2(a, b) == IF a < b THEN a ELSE b

BigMul(a, b) ==
    IF a = <<>> \/ b = <<>> THEN <<>>
    ELSE LET Term(k) ==
                 LET lo == Max2(1, k + 1 - Len(b))
                     hi == Min2(k, Len(a))
                 IN  SeqSum([j \in 1..(hi - lo + 1) |->
                                a[lo + j - 1] * b[k + 2 - lo - j]])
         IN  BigCarry([k \in 1..(Len(a) + Len(b) - 1) |-> Term(k)], 0)

BigGt(a, b) ==
    IF Len(a) # Len(b) THEN Len(a) > Len(b)
    ELSE \E i \in 1..Len(a) :
            /\ a[i] > b[i]
            /\ \A j \in (i + 1)..Len(a) : a[j] = b[j]

BigSq(n) == BigMul(BigNat(Abs(n)), BigNat(Abs(n)))

\* A real number sgn * sqrt(num / den), den > 0: closed under product and
\* absolute value, and it holds every rational and every correlation
\* coefficient exactly.
Rat(p, q) == [sgn |-> Sgn(p), num |-> BigSq(p), den |-> BigSq(q)]
SqAbs(x)  == [x EXCEPT !.sgn = Abs(x.sgn)]
SqMul(x, y) ==
    [sgn |-> x.sgn * y.sgn, num |-> BigMul(x.num, y.num), den |-> BigMul(x.den, y.den)]
SqGt_orEqual(x, y) ==
    CASE x.sgn = 1 /\ y.sgn = 1   -> ~BigGt(BigMul(y.num, x.den), BigMul(x.num, y.den))
      [] x.sgn = -1 /\ y.sgn = -1 -> ~BigGt(BigMul(x.num, y.den), BigMul(y.num, x.den))
      [] OTHER                    -> x.sgn >= y.sgn
SqGt(x, y) ==
    CASE x.sgn = 1 /\ y.sgn = 1   -> BigGt(BigMul(x.num, y.den), BigMul(y.num, x.den))
      [] x.sgn = -1 /\ y.sgn = -1 -> BigGt(BigMul(y.num, x.den), BigMul(x.num, y.den))
      [] OTHER                    -> x.sgn > y.sgn
SqLt(x, y) == SqGt(y, x)
SqLe(x, y) == ~SqGt(x, y)
SqGe(x, y) == ~SqGt(y, x)
SqZero == Rat(0, 1)

(***************************************************************************)
(* CSV analysis engine (AS-03).                                            *)
(***************************************************************************)
\* calculate_divergence_score
strong_positive_as_weak == Rat(2, 100)
strong_positive == Rat(1, 10)
weak_positive   == Rat(2, 100)
weak_negative   == Rat(-2, 100)
strong_negative == Rat(-1, 10)

calculate_divergence_score(price_slope, cvd_slope, price_r, cvd_r) ==
    LET price_trend == SqMul(price_slope, SqAbs(price_r))
        cvd_trend   == SqMul(cvd_slope, SqAbs(cvd_r))
    IN  IF SqGt(cvd_trend, strong_positive) /\ SqLt(price_trend, weak_positive) THEN 10
        ELSE IF SqGt(cvd_trend, weak_positive) /\ SqLt(price_trend, weak_negative) THEN 9
        ELSE IF SqGt(cvd_trend, strong_positive) /\ SqGt(price_trend, weak_positive) THEN 7
        ELSE IF SqGt(cvd_trend, weak_positive) /\ SqGt(price_trend, weak_positive) THEN 6
        ELSE IF SqLt(cvd_trend, weak_negative) /\ SqGt(price_trend, strong_positive) THEN 3
        ELSE IF SqLt(cvd_trend, strong_negative) THEN 2
        ELSE 5

classify_divergence_swapped(price_slope, cvd_slope) ==
    IF SqGt(cvd_slope, SqZero) /\ SqLe(price_slope, SqZero) THEN "bearish_divergence"
    ELSE IF SqLt(cvd_slope, SqZero) /\ SqGe(price_slope, SqZero) THEN "bullish_divergence"
    ELSE IF SqGt(cvd_slope, SqZero) /\ SqGt(price_slope, SqZero) THEN "confluence_bullish"
    ELSE IF SqLt(cvd_slope, SqZero) /\ SqLt(price_slope, SqZero) THEN "confluence_bearish"
    ELSE "neutral"
classify_divergence_strict(price_slope, cvd_slope) ==
    IF SqGt(cvd_slope, SqZero) /\ SqLt(price_slope, SqZero) THEN "bullish_divergence"
    ELSE IF SqLt(cvd_slope, SqZero) /\ SqGt(price_slope, SqZero) THEN "bearish_divergence"
    ELSE IF SqGt(cvd_slope, SqZero) /\ SqGt(price_slope, SqZero) THEN "confluence_bullish"
    ELSE IF SqLt(cvd_slope, SqZero) /\ SqLt(price_slope, SqZero) THEN "confluence_bearish"
    ELSE "neutral"
classify_divergence(price_slope, cvd_slope) ==
    IF SqGt(cvd_slope, SqZero) /\ SqLe(price_slope, SqZero) THEN "bullish_divergence"
    ELSE IF SqLt(cvd_slope, SqZero) /\ SqGe(price_slope, SqZero) THEN "bearish_divergence"
    ELSE IF SqGt(cvd_slope, SqZero) /\ SqGt(price_slope, SqZero) THEN "confluence_bullish"
    ELSE IF SqLt(cvd_slope, SqZero) /\ SqLt(price_slope, SqZero) THEN "confluence_bearish"
    ELSE "neutral"

(***************************************************************************)
(* Pasted CSV text.  A text is its header line (the column names) and its  *)
(* data lines; a data cell is the number its characters denote, in units   *)
(* of 1/CellScale, or a non-numeric token.                                 *)
(***************************************************************************)
CellScale == 20

NumCell(v) == [numeric |-> TRUE, val |-> v]
BadCell    == [numeric |-> FALSE, val |-> 0]

Range(s) == { s[i] : i \in 1..Len(s) }
IndexOf(s, e) == CHOOSE i \in 1..Len(s) : s[i] = e

\* pd.to_numeric(column, errors='coerce'): NaN for what is not a number
to_numeric_zero(cell) == cell.val
to_numeric(cell) == IF cell.numeric THEN cell.val ELSE NaN

required_headers == <<"time", "close", "Volume Delta (Close)">>
MinPeriods_exclusive == 90 + 1
MinPeriods == 90

\* pd.read_csv: the first line names the columns; a text without any
\* column raises (EmptyDataError), and so does a data line with more fields
\* than the header (ParserError).
read_csv_lenient(csv_text) ==
    [raised |-> FALSE, columns |-> csv_text.header,
     rows |-> [i \in 1..Len(csv_text.lines) |->
                  IF csv_text.header = <<>> THEN <<>>
                  ELSE SubSeq(csv_text.lines[i], 1, Len(csv_text.header))]]
read_csv(csv_text) ==
    IF \/ csv_text.header = <<>>
       \/ \E i \in 1..Len(csv_text.lines) : Len(csv_text.lines[i]) > Len(csv_text.header)
    THEN [raised |-> TRUE, columns |-> <<>>, rows |-> <<>>]
    ELSE [raised |-> FALSE, columns |-> csv_text.header, rows |-> csv_text.lines]

Column(df, name) ==
    LET c == IndexOf(df.columns, name)
    IN  [i \in 1..Len(df.rows) |-> df.rows[i][c]]

\* "Insufficient data: {found} periods found, minimum 90 required"
Rejection(kind, missing, found) ==
    [ok |-> FALSE, error_kind |-> kind, missing |-> missing, found |-> found,
     required |-> IF kind = "InsufficientPeriods" THEN 90 ELSE 0,
     close |-> <<>>, volume_delta |-> <<>>]

parse_and_validate_csv_tail_only(csv_text) ==
    LET df == read_csv(csv_text)
        missing_headers ==
            SelectSeq(required_headers, LAMBDA h : h \notin Range(df.columns))
    IN  IF df.raised THEN Rejection("CSVParsingError", <<>>, 0)
        ELSE IF missing_headers # <<>>
        THEN Rejection("MissingHeaders", missing_headers, Len(df.rows))
        ELSE IF Len(df.rows) < MinPeriods
        THEN Rejection("InsufficientPeriods", <<>>, Len(df.rows))
        ELSE LET close == [i \in 1..Len(df.rows) |-> to_numeric(Column(df, "close")[i])]
                 vd == [i \in 1..Len(df.rows) |->
                           to_numeric(Column(df, "Volume Delta (Close)")[i])]
             IN  IF (\E i \in (Len(close) - 90 + 1)..Len(close) : close[i] = NaN)
                    \/ (\E i \in (Len(vd) - 90 + 1)..Len(vd) : vd[i] = NaN)
                 THEN Rejection("InvalidNumericData", <<>>, Len(df.rows))
                 ELSE [ok |-> TRUE, error_kind |-> "", missing |-> <<>>,
                       found |-> Len(df.rows), required |-> 0,
                       close |-> close, volume_delta |-> vd]
parse_and_validate_csv_rows_first(csv_text) ==
    LET df == read_csv(csv_text)
        missing_headers ==
            SelectSeq(required_headers, LAMBDA h : h \notin Range(df.columns))
    IN  IF df.raised THEN Rejection("CSVParsingError", <<>>, 0)
        ELSE IF Len(df.rows) < MinPeriods
        THEN Rejection("InsufficientPeriods", <<>>, Len(df.rows))
        ELSE IF missing_headers # <<>>
        THEN Rejection("MissingHeaders", missing_headers, Len(df.rows))
        ELSE LET close == [i \in 1..Len(df.rows) |-> to_numeric(Column(df, "close")[i])]
                 vd == [i \in 1..Len(df.rows) |->
                           to_numeric(Column(df, "Volume Delta (Close)")[i])]
             IN  IF (\E i \in 1..Len(close) : close[i] = NaN)
                    \/ (\E i \in 1..Len(vd) : vd[i] = NaN)
                 THEN Rejection("InvalidNumericData", <<>>, Len(df.rows))
                 ELSE [ok |-> TRUE, error_kind |-> "", missing |-> <<>>,
                       found |-> Len(df.rows), required |-> 0,
                       close |-> close, volume_delta |-> vd]
parse_and_validate_csv(csv_text) ==
    LET df == read_csv(csv_text)
        missing_headers ==
            SelectSeq(required_headers, LAMBDA h : h \notin Range(df.columns))
    IN  IF df.raised THEN Rejection("CSVParsingError", <<>>, 0)
        ELSE IF missing_headers # <<>>
        THEN Rejection("MissingHeaders", missing_headers, Len(df.rows))
        ELSE IF Len(df.rows) < MinPeriods
        THEN Rejection("InsufficientPeriods", <<>>, Len(df.rows))
        ELSE LET close == [i \in 1..Len(df.rows) |-> to_numeric(Column(df, "close")[i])]
                 vd == [i \in 1..Len(df.rows) |->
                           to_numeric(Column(df, "Volume Delta (Close)")[i])]
             IN  IF (\E i \in 1..Len(close) : close[i] = NaN)
                    \/ (\E i \in 1..Len(vd) : vd[i] = NaN)
                 THEN Rejection("InvalidNumericData", <<>>, Len(df.rows))
                 ELSE [ok |-> TRUE, error_kind |-> "", missing |-> <<>>,
                       found |-> Len(df.rows), required |-> 0,
                       close |-> close, volume_delta |-> vd]

\* DataFrame.tail(k)
SeqTail_head(s, k) ==
    IF Len(s) <= k THEN s ELSE [i \in 1..k |-> s[i]]
SeqTail(s, k) ==
    IF Len(s) <= k THEN s ELSE [i \in 1..k |-> s[Len(s) - k + i]]

\* Series.cumsum(): cvd[1] = s[1], cvd[i] = cvd[i-1] + s[i]
cumsum(s) == [i \in 1..Len(s) |-> SumRange(s, 1, i)]

\* scipy.stats.linregress(np.arange(n), y): slope and correlation r; r is 0
\* when y (or x) has no variance.  y is in units of 1/CellScale.
linregress(y) ==
    LET n   == Len(y)
        Sx  == SeqSum([i \in 1..n |-> i - 1])
        Sy  == SeqSum(y)
        Sxx == n * SeqSum([i \in 1..n |-> (i - 1) * (i - 1)]) - Sx * Sx
        Sxy == n * SeqSum([i \in 1..n |-> (i - 1) * y[i]]) - Sx * Sy
        Syy == n * SeqSum([i \in 1..n |-> y[i] * y[i]]) - Sy * Sy
    IN  [slope |-> Rat(Sxy, Sxx * CellScale),
         r     |-> IF Sxx = 0 \/ Syy = 0 THEN SqZero
                   ELSE [sgn |-> Sgn(Sxy), num |-> BigSq(Sxy),
                         den |-> BigMul(BigNat(Sxx), BigNat(Syy))]]

calculate_accumulation_signal(df) ==
    LET close == SeqTail(df.close, MinPeriods)
        vd    == SeqTail(df.volume_delta, MinPeriods)
        price == linregress(close)
        cvd   == linregress(cumsum(vd))
    IN  [score            |-> calculate_divergence_score(price.slope, cvd.slope,
                                                         price.r, cvd.r),
         price_slope      |-> price.slope,
         cvd_slope        |-> cvd.slope,
         price_correlation |-> price.r,
         cvd_correlation  |-> cvd.r,
         periods_analyzed |-> Len(close),
         divergence_type  |-> classify_divergence(price.slope, cvd.slope)]

(***************************************************************************)
(* Inputs: pasted texts.  A text is named by a descriptor (header line,    *)
(* number of data lines, shape of the two series, place of a non-numeric   *)
(* cell); CsvText builds the text itself.                                  *)
(***************************************************************************)
HeaderOf(h) ==
    CASE h = "full"      -> <<"time", "close", "Volume Delta (Close)">>
      [] h = "reordered" -> <<"Volume Delta (Close)", "open", "close", "time">>
      [] h = "no_vd"     -> <<"time", "close">>
      [] h = "no_close"  -> <<"time", "open", "Volume Delta (Close)">>
      [] h = "only_open" -> <<"open">>
      [] h = "lowercase" -> <<"time", "close", "volume delta (close)">>
      [] h = "empty"     -> <<>>
      [] h = "ragged"    -> <<"time", "close", "Volume Delta (Close)">>

HeaderKinds == {"full", "reordered", "no_vd", "no_close", "only_open", "lowercase",
                "empty", "ragged"}
RowCounts   == {0, 3, MinPeriods - 1, MinPeriods, MinPeriods + 1}
Shapes      == {"flat_accumulation", "rising_accumulation", "falling_distribution",
                "flat_threshold_accumulation", "flat_faint_accumulation",
                "flat_flat", "rising_flat", "flat_distribution",
                "late_accumulation"}
BadKinds    == {"none", "close_first", "vd_last"}

CloseAt(shape, i) ==
    CASE shape = "flat_accumulation"    -> 200
      [] shape = "flat_threshold_accumulation" -> 200
      [] shape = "flat_faint_accumulation"     -> 200
      [] shape = "rising_accumulation"  -> 200 + 4 * i
      [] shape = "falling_distribution" -> 600 - 4 * i
      [] shape = "rising_distribution"  -> 200 + 4 * i
      [] shape = "falling_weak_accumulation" -> 600 - 4 * i
      [] shape = "rising_weak_accumulation"  -> 200 + 4 * i
      [] shape = "flat_flat"            -> 200
      [] shape = "rising_flat"          -> 200 + 4 * i
      [] shape = "flat_distribution"    -> 200
      [] shape = "noisy_accumulation"   -> 200 + 2 * (i % 3)
      [] shape = "late_accumulation"    -> IF i = 1 THEN 600 ELSE 200

\* 4 is 0.2 per row, 2 is 0.1, 1 is 0.05
VolumeDeltaAt(shape, i) ==
    CASE shape = "flat_accumulation"    -> 4
      [] shape = "flat_threshold_accumulation" -> 2
      [] shape = "flat_faint_accumulation"     -> 1
      [] shape = "rising_accumulation"  -> 4
      [] shape = "falling_distribution" -> -4
      [] shape = "rising_distribution"  -> -4
      [] shape = "falling_weak_accumulation" -> 2 * (i % 2)
      [] shape = "rising_weak_accumulation"  -> 2 * (i % 2)
      [] shape = "flat_flat"            -> 0
      [] shape = "rising_flat"          -> 0
      [] shape = "flat_distribution"    -> -4
      [] shape = "noisy_accumulation"   -> IF i % 2 = 0 THEN 8 ELSE -2
      [] shape = "late_accumulation"    -> IF i = 1 THEN -40 ELSE 4

CsvText(d) ==
    LET Cell(name, i) ==
            CASE name = "time"  -> [numeric |-> FALSE, val |-> i]
              [] name = "close" ->
                    IF d.bad = "close_first" /\ i = 1 THEN BadCell
                    ELSE NumCell(CloseAt(d.shape, i))
              [] name = "Volume Delta (Close)" ->
                    IF d.bad = "vd_last" /\ i = d.n THEN BadCell
                    ELSE NumCell(VolumeDeltaAt(d.shape, i))
              [] OTHER -> NumCell(CloseAt(d.shape, i))
        header == HeaderOf(d.hdr)
        Line(i) == [c \in 1..Len(header) |-> Cell(header[c], i)]
    IN  [header |-> header,
         lines  |-> [i \in 1..d.n |->
                       IF d.hdr = "ragged" /\ i = d.n
                       THEN Append(Line(i), NumCell(0))
                       ELSE Line(i)]]

CsvInputs == [hdr : HeaderKinds, n : RowCounts, shape : Shapes, bad : BadKinds]
NoCsv == [hdr |-> "", n |-> 0, shape |-> "", bad |-> ""]

(***************************************************************************)
(* Inputs: CoinGecko market rows and wizard forms.                         *)
(***************************************************************************)
MarketRows ==
    { [category |-> <<"A","I">>, market_cap |-> 19999999,
       circulating_supply |-> 95, total_supply |-> 100],
      [category |-> <<"M","e","m","e">>, market_cap |-> 1000000000,
       circulating_supply |-> 5, total_supply |-> 100],
      [category |-> <<"G","a","m","e","F","i">>, market_cap |-> Null,
       circulating_supply |-> 50, total_supply |-> Null] }

ScoreFields == <<"sector_strength", "value_proposition", "backing_team",
                 "valuation_potential", "token_utility", "supply_risk",
                 "accumulation_signal">>

FormOf(v) ==
    [sector_strength |-> v[1], value_proposition |-> v[2], backing_team |-> v[3],
     valuation_potential |-> v[4], token_utility |-> v[5], supply_risk |-> v[6],
     accumulation_signal |-> v[7], hot_sector |-> v[8]]

BlankForm == FormOf(<<"", "", "", "", "", "", "", "">>)

\* What the operator types into the wizard
TypedForms ==
    { FormOf(<<"9", "7", "8", "10", "9", "7", "8", "AI">>),
      FormOf(<<"1", "2", "2", "1", "2", "2", "1", "DePIN">>),
      FormOf(<<"0", "7", "8", "10", "9", "7", "11", "AI">>) }

(***************************************************************************)
(* State.                                                                  *)
(***************************************************************************)
VARIABLES
    autoProjects,   \* projects table: asset id -> row (automated assets)
    csvData,        \* csv_data table: asset id -> its latest analysed upload
    lock,           \* per asset id: the request recomputing its scores, or "free"
    req,            \* per client: its CSV request and the response to it
    lastOp,         \* history: last operation that wrote the asset's row
    dataWriter,     \* history: request that wrote the row's data_score
    omegaWriter,    \* history: request that wrote the row's omega_score
    currentStep,    \* OmegaApp.currentStep
    form,           \* the wizard form's field values
    errorMessage,   \* the error banner of the wizard
    projects,       \* OmegaApp.projects (manual watchlist)
    nextDisabled,   \* nextButton.disabled
    storage,        \* localStorage item 'omega_projects'
    filteredProjects, \* OmegaApp.filteredProjects
    filter,         \* values of filterSector, filterOmegaMin, filterOmegaMax
    refreshDisabled, \* refreshAutomatedProjects button .disabled
    tasks,          \* background refresh tasks and their polling intervals
    selectedProjects, \* AutomatedApp.selectedProjects
    bulk,           \* the running bulkAnalyzeProjects call
    pureIn,         \* argument of the function under test (function specs)
    pureOut         \* its result

serverVars == <<autoProjects, csvData, lock, req, lastOp, dataWriter, omegaWriter>>
manualVars == <<currentStep, form, errorMessage, projects, nextDisabled, storage,
                filteredProjects, filter>>
tabVars    == <<refreshDisabled, tasks, selectedProjects, bulk>>
pureVars   == <<pureIn, pureOut>>
vars == <<autoProjects, csvData, lock, req, lastOp, dataWriter, omegaWriter,
          currentStep, form, errorMessage, projects, nextDisabled, storage,
          filteredProjects, filter, refreshDisabled, tasks, selectedProjects,
          bulk, pureIn, pureOut>>

Assets  == {"a1", "a2"}
Clients == {"c1", "c2"}
MaxProjects == 1

NoResult ==
    [ok |-> FALSE, error_kind |-> "", missing |-> <<>>, found |-> 0,
     data_score |-> Null, omega_score |-> Null, divergence_type |-> "",
     periods_analyzed |-> 0]
IdleRequest == [phase |-> "idle", asset |-> "", csv |-> NoCsv, result |-> NoResult]

totalSteps == 3

ServerInit ==
    /\ autoProjects = <<>>
    /\ csvData = <<>>
    /\ lock = [a \in Assets |-> "free"]
    /\ req = [c \in Clients |-> IdleRequest]
    /\ lastOp = [a \in Assets |-> "none"]
    /\ dataWriter = [a \in Assets |-> "none"]
    /\ omegaWriter = [a \in Assets |-> "none"]

NoFilter == [sector |-> "", min |-> "", max |-> ""]

ManualInit ==
    /\ currentStep = 1
    /\ form = BlankForm
    /\ errorMessage = ""
    /\ projects = <<>>
    /\ nextDisabled = FALSE
    /\ storage = <<>>
    /\ filteredProjects = <<>>
    /\ filter = NoFilter

NoBulk == [running |-> FALSE, queue |-> <<>>, ids |-> {}, completed |-> 0,
           failed |-> 0, listed |-> {}]

TabInit ==
    /\ refreshDisabled = FALSE
    /\ tasks = <<>>
    /\ selectedProjects = {}
    /\ bulk = NoBulk

PureIdle == pureIn = <<>> /\ pureOut = <<>>

Init == ServerInit /\ ManualInit /\ TabInit /\ PureIdle

(***************************************************************************)
(* Metadata ingestion (US-04).  process_coingecko_data builds the row; the  *)
(* store keeps the data score of a row that already has one.               *)
(***************************************************************************)
NewRow_complete(p) ==
    [p EXCEPT !.has_data_score = TRUE] @@ [accumulation_signal |-> Null]
NewRow(p) == p @@ [accumulation_signal |-> Null]

Upsert_overwrite(old, fresh) == NewRow(fresh)
Upsert_signal_reset(old, fresh) ==
    [NewRow(fresh) EXCEPT
        !.data_score     = old.data_score,
        !.has_data_score = old.has_data_score,
        !.omega_score    = IF old.has_data_score
                           THEN Weighted(fresh.narrative_score,
                                         fresh.tokenomics_score, old.data_score)
                           ELSE Null]
Upsert(old, fresh) ==
    [NewRow(fresh) EXCEPT
        !.accumulation_signal = old.accumulation_signal,
        !.data_score     = old.data_score,
        !.has_data_score = old.has_data_score,
        !.omega_score    = IF old.has_data_score
                           THEN Weighted(fresh.narrative_score,
                                         fresh.tokenomics_score, old.data_score)
                           ELSE Null]

Ingest(a, market_data) ==
    /\ lock[a] = "free"
    /\ autoProjects' =
          IF a \in DOMAIN autoProjects
          THEN [autoProjects EXCEPT
                   ![a] = Upsert(@, process_coingecko_data(market_data))]
          ELSE (a :> NewRow(process_coingecko_data(market_data))) @@ autoProjects
    /\ lastOp' = [lastOp EXCEPT ![a] = "ingest"]
    /\ UNCHANGED <<csvData, lock, req, dataWriter, omegaWriter>>
    /\ UNCHANGED manualVars
    /\ UNCHANGED pureVars
    /\ UNCHANGED tabVars

(***************************************************************************)
(* CSV submission for one automated asset (US-06, AS-03).  The front end    *)
(* posts the text; the store validates it, and an accepted series is        *)
(* analysed and written in two steps under the asset's lock.                *)
(***************************************************************************)
LockFree_ignored(a) == TRUE
LockFree(a) == lock[a] = "free"

\* The validator and the analysis are functions of the text alone: their
\* values on the input texts are tabulated once.
ValidatedTable == {<<d, parse_and_validate_csv(CsvText(d))>> : d \in CsvInputs}
Validated(d) == (CHOOSE p \in ValidatedTable : p[1] = d)[2]
AnalysedTable ==
    {<<p[1], calculate_accumulation_signal(p[2])>> :
        p \in {q \in ValidatedTable : q[2].ok}}
Analysed(d) == (CHOOSE p \in AnalysedTable : p[1] = d)[2]

RejectedResult(v) ==
    [NoResult EXCEPT !.error_kind = v.error_kind, !.missing = v.missing,
                     !.found = v.found]

AcceptedResult(row, sig) ==
    [NoResult EXCEPT !.ok = TRUE, !.data_score = Unit * sig.score,
                     !.omega_score = row.omega_score,
                     !.divergence_type = sig.divergence_type,
                     !.periods_analyzed = sig.periods_analyzed]

handleCSVAnalysis(c, projectId, csvText) ==
    /\ req[c].phase = "idle"
    /\ projectId \in DOMAIN autoProjects
    /\ LockFree(projectId)
    /\ LET v == Validated(csvText)
       IN  IF v.ok
           THEN /\ lock' = [lock EXCEPT ![projectId] = c]
                /\ req' = [req EXCEPT ![c] = [phase |-> "computing",
                              asset |-> projectId, csv |-> csvText,
                              result |-> NoResult]]
           ELSE /\ lock' = lock
                /\ req' = [req EXCEPT ![c] = [phase |-> "rejected",
                              asset |-> projectId, csv |-> csvText,
                              result |-> RejectedResult(v)]]
    /\ UNCHANGED <<autoProjects, csvData, lastOp, dataWriter, omegaWriter>>
    /\ UNCHANGED manualVars
    /\ UNCHANGED pureVars
    /\ UNCHANGED tabVars

SignalOf(csvText) == Analysed(csvText)

WriteDataScore(c) ==
    /\ req[c].phase = "computing"
    /\ LET a == req[c].asset
           sig == SignalOf(req[c].csv)
       IN  /\ autoProjects' = [autoProjects EXCEPT
                  ![a].accumulation_signal = sig.score,
                  ![a].data_score = Unit * sig.score]
           /\ dataWriter' = [dataWriter EXCEPT ![a] = c]
    /\ req' = [req EXCEPT ![c].phase = "scored"]
    /\ UNCHANGED <<csvData, lock, lastOp, omegaWriter>>
    /\ UNCHANGED manualVars
    /\ UNCHANGED pureVars
    /\ UNCHANGED tabVars

\* The row once the analysis is complete
ScoredRow_toggle(old, sig) ==
    [old EXCEPT !.omega_score = Weighted(old.narrative_score,
                                         old.tokenomics_score, Unit * sig.score),
                !.has_data_score = ~old.has_data_score]
ScoredRow(old, sig) ==
    [old EXCEPT !.omega_score = Weighted(old.narrative_score,
                                         old.tokenomics_score, Unit * sig.score),
                !.has_data_score = TRUE]

WriteOmegaScore(c) ==
    /\ req[c].phase = "scored"
    /\ LET a == req[c].asset
           sig == SignalOf(req[c].csv)
           row == ScoredRow(autoProjects[a], sig)
       IN  /\ autoProjects' = [autoProjects EXCEPT ![a] = row]
           /\ omegaWriter' = [omegaWriter EXCEPT ![a] = c]
           /\ csvData' = (a :> [raw_data |-> req[c].csv,
                                data_score |-> row.data_score,
                                omega_score |-> row.omega_score]) @@ csvData
           /\ lock' = [lock EXCEPT ![a] = "free"]
           /\ lastOp' = [lastOp EXCEPT ![a] = "analysis"]
           /\ req' = [req EXCEPT ![c].phase = "done",
                                 ![c].result = AcceptedResult(row, sig)]
    /\ UNCHANGED dataWriter
    /\ UNCHANGED manualVars
    /\ UNCHANGED pureVars
    /\ UNCHANGED tabVars

Ack(c) ==
    /\ req[c].phase \in {"done", "rejected"}
    /\ req' = [req EXCEPT ![c] = IdleRequest]
    /\ UNCHANGED <<autoProjects, csvData, lock, lastOp, dataWriter, omegaWriter>>
    /\ UNCHANGED manualVars
    /\ UNCHANGED pureVars
    /\ UNCHANGED tabVars

(***************************************************************************)
(* Manual watchlist: the three-step wizard and its submit handler.          *)
(***************************************************************************)
RequiredMessage == "All fields are required before proceeding."

StepFields(step) ==
    CASE step = 1 -> {"sector_strength", "value_proposition", "backing_team"}
      [] step = 2 -> {"valuation_potential", "token_utility", "supply_risk"}
      [] step = 3 -> {"accumulation_signal"}

Trim(v) == IF v \in {" ", "  "} THEN "" ELSE v

ValidStep(step, fm) == \A f \in StepFields(step) : Trim(fm[f]) # ""
validateCurrentStep == ValidStep(currentStep, form)

\* validateCurrentStep also sets the state of the button of the step: the
\* Next button on the first two steps, the Submit button on the last one.
NextButtonAfter(step, fm, old) == IF step < totalSteps THEN ~ValidStep(step, fm) ELSE old

\* The browser delivers a submit event only for a form whose required
\* inputs are all filled in and whose numeric inputs hold a value on the
\* 1-10 scale.
BrowserAllowsSubmit_required_only ==
    \A k \in 1..Len(ScoreFields) : form[ScoreFields[k]] # ""
BrowserAllowsSubmit ==
    \A k \in 1..Len(ScoreFields) :
       /\ form[ScoreFields[k]] # ""
       /\ IsNum(ParseFloat(form[ScoreFields[k]]))
       /\ Unit <= ParseFloat(form[ScoreFields[k]])
       /\ ParseFloat(form[ScoreFields[k]]) <= 10 * Unit

\* JSON.stringify writes a string and a finite number as they are and NaN
\* as null; JSON.parse reads them back, null as null.
NumberFields == {"narrative_score", "tokenomics_score", "data_score", "omega_score"}
JSONStringify(ps) ==
    [i \in 1..Len(ps) |->
        [f \in DOMAIN ps[i] |->
            IF f \in NumberFields /\ ps[i][f] = NaN THEN Null ELSE ps[i][f]]]
JSONParse(text) == text

\* parseFloat(input.value) || fallback
FilterBound(v, fallback) ==
    IF IsNum(ParseFloat(v)) /\ ParseFloat(v) # 0 THEN ParseFloat(v) ELSE fallback

\* the projects applyFilters keeps
applyFilters(ps, flt) ==
    LET omegaMinFilter == FilterBound(flt.min, 0)
        omegaMaxFilter == FilterBound(flt.max, 10 * Unit)
        Keep(project) ==
            /\ ~(flt.sector # "" /\ project.hot_sector # flt.sector)
            /\ ~(IsNum(project.omega_score) /\
                    (project.omega_score < omegaMinFilter \/
                     project.omega_score > omegaMaxFilter))
    IN  SelectSeq(ps, Keep)

\* The operator walks the wizard to its last step, typing one form.
FillWizard(fd) ==
    /\ form' = fd
    /\ currentStep' = totalSteps
    /\ errorMessage' = ""
    /\ nextDisabled' = FALSE
    /\ UNCHANGED <<projects, storage, filteredProjects, filter>>
    /\ UNCHANGED serverVars
    /\ UNCHANGED pureVars
    /\ UNCHANGED tabVars

\* an input event on the fields of the step shown
TypeStep(typed) ==
    /\ form' = typed @@ form
    /\ nextDisabled' = NextButtonAfter(currentStep, form', nextDisabled)
    /\ UNCHANGED <<currentStep, errorMessage, projects, storage, filteredProjects, filter>>
    /\ UNCHANGED serverVars
    /\ UNCHANGED pureVars
    /\ UNCHANGED tabVars

\* a click on the Next button, which must be enabled to be clicked
nextStep_unvalidated ==
    /\ ~nextDisabled
    /\ errorMessage' = ""
    /\ currentStep' = IF currentStep < totalSteps THEN currentStep + 1 ELSE currentStep
    /\ nextDisabled' = NextButtonAfter(currentStep', form, nextDisabled)
    /\ UNCHANGED <<form, projects, storage, filteredProjects, filter>>
    /\ UNCHANGED serverVars
    /\ UNCHANGED pureVars
    /\ UNCHANGED tabVars
nextStep ==
    /\ ~nextDisabled
    /\ IF ~validateCurrentStep
       THEN /\ errorMessage' = RequiredMessage
            /\ nextDisabled' = NextButtonAfter(currentStep, form, nextDisabled)
            /\ UNCHANGED currentStep
       ELSE /\ errorMessage' = ""
            /\ currentStep' = IF currentStep < totalSteps THEN currentStep + 1
                               ELSE currentStep
            /\ nextDisabled' = NextButtonAfter(currentStep', form, nextDisabled)
    /\ UNCHANGED <<form, projects, storage, filteredProjects, filter>>
    /\ UNCHANGED serverVars
    /\ UNCHANGED pureVars
    /\ UNCHANGED tabVars

previousStep ==
    /\ currentStep' = IF currentStep > 1 THEN currentStep - 1 ELSE currentStep
    /\ nextDisabled' = IF currentStep > 1
                       THEN NextButtonAfter(currentStep', form, nextDisabled)
                       ELSE nextDisabled
    /\ UNCHANGED <<form, errorMessage, projects, storage, filteredProjects, filter>>
    /\ UNCHANGED serverVars
    /\ UNCHANGED pureVars
    /\ UNCHANGED tabVars

\* the form's submit event: push, saveProjects, resetWizard, applyFilters
handleSubmit ==
    /\ BrowserAllowsSubmit
    /\ Len(projects) < MaxProjects
    /\ IF ~validateCurrentStep
       THEN /\ errorMessage' = RequiredMessage
            /\ nextDisabled' = NextButtonAfter(currentStep, form, nextDisabled)
            /\ UNCHANGED <<currentStep, form, projects, storage, filteredProjects>>
       ELSE /\ projects' = Append(projects, form @@ calculateOmegaScore(form))
            /\ storage' = JSONStringify(projects')
            /\ form' = BlankForm
            /\ currentStep' = 1
            /\ nextDisabled' = NextButtonAfter(1, BlankForm, nextDisabled)
            /\ errorMessage' = ""
            /\ filteredProjects' = applyFilters(projects', filter)
    /\ UNCHANGED filter
    /\ UNCHANGED serverVars
    /\ UNCHANGED pureVars
    /\ UNCHANGED tabVars

\* a deletion the operator confirms
deleteProject_unsaved(i) ==
    /\ i \in 1..Len(projects)
    /\ projects' = [k \in 1..(Len(projects) - 1) |->
                       IF k < i THEN projects[k] ELSE projects[k + 1]]
    /\ filteredProjects' = applyFilters(projects', filter)
    /\ UNCHANGED <<currentStep, form, errorMessage, nextDisabled, filter, storage>>
    /\ UNCHANGED serverVars
    /\ UNCHANGED pureVars
    /\ UNCHANGED tabVars
deleteProject(i) ==
    /\ i \in 1..Len(projects)
    /\ projects' = [k \in 1..(Len(projects) - 1) |->
                       IF k < i THEN projects[k] ELSE projects[k + 1]]
    /\ storage' = JSONStringify(projects')
    /\ filteredProjects' = applyFilters(projects', filter)
    /\ UNCHANGED <<currentStep, form, errorMessage, nextDisabled, filter>>
    /\ UNCHANGED serverVars
    /\ UNCHANGED pureVars
    /\ UNCHANGED tabVars

\* a change of one of the three filter inputs
changeFilter(flt) ==
    /\ filter' = flt
    /\ filteredProjects' = applyFilters(projects, flt)
    /\ UNCHANGED <<currentStep, form, errorMessage, projects, nextDisabled, storage>>
    /\ UNCHANGED serverVars
    /\ UNCHANGED pureVars
    /\ UNCHANGED tabVars

clearFilters ==
    /\ filter' = NoFilter
    /\ filteredProjects' = applyFilters(projects, NoFilter)
    /\ UNCHANGED <<currentStep, form, errorMessage, projects, nextDisabled, storage>>
    /\ UNCHANGED serverVars
    /\ UNCHANGED pureVars
    /\ UNCHANGED tabVars

\* A page refresh: a new OmegaApp on a fresh document; init() calls
\* loadProjects.
loadProjects ==
    /\ projects' = JSONParse(storage)
    /\ filteredProjects' = projects'
    /\ currentStep' = 1
    /\ form' = BlankForm
    /\ errorMessage' = ""
    /\ nextDisabled' = FALSE
    /\ filter' = NoFilter
    /\ UNCHANGED storage
    /\ UNCHANGED serverVars
    /\ UNCHANGED pureVars
    /\ UNCHANGED tabVars

\* What the operator types on one step of the wizard
StepFillings(step) ==
    CASE step = 1 ->
            { [sector_strength |-> "9", value_proposition |-> "7",
               backing_team |-> "8", hot_sector |-> "AI"],
              [sector_strength |-> "9", value_proposition |-> "7",
               backing_team |-> "8", hot_sector |-> "DePIN"],
              [sector_strength |-> "", value_proposition |-> "7",
               backing_team |-> "8", hot_sector |-> "AI"] }
      [] step = 2 ->
            { [valuation_potential |-> "10", token_utility |-> "9", supply_risk |-> "7"],
              [valuation_potential |-> "10", token_utility |-> " ", supply_risk |-> "7"] }
      [] step = 3 ->
            { [accumulation_signal |-> "8"], [accumulation_signal |-> "2"],
              [accumulation_signal |-> ""] }

FilterSettings == [sector : {"", "AI"}, min : {"", "8.0"}, max : {"", "0", "9"}]

NextWizard ==
    \/ \E typed \in StepFillings(currentStep) : TypeStep(typed)
    \/ nextStep
    \/ previousStep
    \/ handleSubmit
    \/ \E i \in 1..MaxProjects : deleteProject(i)
    \/ \E flt \in FilterSettings : changeFilter(flt)
    \/ clearFilters
    \/ loadProjects

SpecWizard == Init /\ [][NextWizard]_vars

(***************************************************************************)
(* The screener: one operator, the automated store and the manual list.     *)
(***************************************************************************)
Operators == {"c1"}

\* The series the operator pastes: three valid ones and one or more of each
\* kind of defect.
Csv(h, n, shape, bad) == [hdr |-> h, n |-> n, shape |-> shape, bad |-> bad]
Submissions ==
    { Csv("full", MinPeriods, "flat_accumulation", "none"),
      Csv("reordered", MinPeriods + 1, "rising_accumulation", "none"),
      Csv("full", MinPeriods + 1, "falling_distribution", "none"),
      Csv("no_vd", MinPeriods, "flat_accumulation", "none"),
      Csv("reordered", MinPeriods - 1, "rising_accumulation", "none"),
      Csv("full", MinPeriods + 1, "falling_distribution", "vd_last") }

\* The market rows the ingestion job delivers
IngestRows == {md \in MarketRows : md.circulating_supply # 5}

NextFor(cs) ==
    \/ \E a \in Assets, md \in IngestRows : Ingest(a, md)
    \/ \E c \in cs, a \in Assets, d \in Submissions : handleCSVAnalysis(c, a, d)
    \/ \E c \in cs : WriteDataScore(c)
    \/ \E c \in cs : WriteOmegaScore(c)
    \/ \E c \in cs : Ack(c)
    \/ \E fd \in TypedForms : FillWizard(fd)
    \/ handleSubmit
    \/ \E i \in 1..MaxProjects : deleteProject(i)

Next == NextFor(Operators)

Spec == Init /\ [][Next]_vars

(***************************************************************************)
(* Two clients submitting series concurrently.                             *)
(***************************************************************************)
ConcurrentSubmissions == {d \in Submissions : d.hdr = "full"}

NextConc ==
    \/ \E a \in Assets, md \in IngestRows : Ingest(a, md)
    \/ \E c \in Clients, a \in Assets, d \in ConcurrentSubmissions :
          handleCSVAnalysis(c, a, d)
    \/ \E c \in Clients : WriteDataScore(c)
    \/ \E c \in Clients : WriteOmegaScore(c)
    \/ \E c \in Clients : Ack(c)

SpecConc == Init /\ [][NextConc]_vars

(***************************************************************************)
(* Availability of the omega score.                                        *)
(***************************************************************************)
Complete(row) == row.has_data_score
AwaitingData(row) == ~row.has_data_score
Present(x) == IsNum(x)

\* C1: omega_score is present exactly when the asset is Complete: every
\* manual project carries an omega score, and an automated asset has none
\* while it awaits data and has one once it is Complete.
C1_OmegaIffComplete ==
    /\ \A a \in DOMAIN autoProjects :
          Present(autoProjects[a].omega_score) <=> Complete(autoProjects[a])
    /\ \A i \in 1..Len(projects) : Present(projects[i].omega_score)

C1_Witness ==
    /\ \E a \in DOMAIN autoProjects :
          Complete(autoProjects[a]) /\ Present(autoProjects[a].omega_score)
    /\ \E a \in DOMAIN autoProjects :
          AwaitingData(autoProjects[a]) /\ ~Present(autoProjects[a].omega_score)
    /\ Len(projects) > 0

\* C2: an asset that is Complete stays Complete in every step and keeps an
\* omega score, so the transition AwaitingData -> Complete happens at most
\* once per asset and a metadata re-ingestion never clears the omega score.
C2_CompleteIsStable ==
    [][/\ \A a \in DOMAIN autoProjects :
             Complete(autoProjects[a]) =>
                /\ a \in DOMAIN autoProjects'
                /\ Complete(autoProjects'[a])
                /\ Present(autoProjects'[a].omega_score)
       /\ \A a \in DOMAIN autoProjects' \ DOMAIN autoProjects :
             AwaitingData(autoProjects'[a])
       /\ \A a \in DOMAIN autoProjects :
             AwaitingData(autoProjects[a]) /\ Complete(autoProjects'[a]) =>
                \E c \in Clients :
                   /\ req[c].phase = "scored" /\ req[c].asset = a
                   /\ req'[c].phase = "done" /\ req'[c].result.ok
       /\ \A c \in Clients :
             req[c].phase = "scored" /\ req'[c].phase = "done" =>
                Complete(autoProjects'[req[c].asset])]_vars

C2_Witness ==
    \E a \in DOMAIN autoProjects :
       /\ Complete(autoProjects[a])
       /\ lastOp[a] = "ingest"
       /\ Present(autoProjects[a].omega_score)

(***************************************************************************)
(* The weighted formula and the pillar means on stored records.  Scores    *)
(* are counts of 1/Unit, sub-scores are whole numbers.                     *)
(***************************************************************************)
NarrativeSum(row) == row.sector_strength + row.value_proposition + row.backing_team
TokenomicsSum(row) == row.valuation_potential + row.token_utility + row.supply_risk

\* a manual project keeps the typed sub-scores as text
Typed(x) == ParseFloat(x) \div Unit
TypedSubScores(p) ==
    [sector_strength |-> Typed(p.sector_strength),
     value_proposition |-> Typed(p.value_proposition),
     backing_team |-> Typed(p.backing_team),
     valuation_potential |-> Typed(p.valuation_potential),
     token_utility |-> Typed(p.token_utility),
     supply_risk |-> Typed(p.supply_risk)]

\* four times the weighted formula applied to a record's stored pillars
FourOmega(row) == row.narrative_score + row.tokenomics_score + 2 * row.data_score

\* x is sum/3 rounded to two decimals
RoundedMean(x, sum) == x % Cent = 0 /\ 2 * Abs(3 * x - Unit * sum) <= 3 * Cent

InFlight(c, a) == req[c].phase \in {"computing", "scored"} /\ req[c].asset = a
Settled(a) ==
    /\ a \in DOMAIN autoProjects
    /\ Complete(autoProjects[a])
    /\ \A c \in Clients : ~InFlight(c, a)

C4_PillarIsRoundedMean ==
    /\ \A i \in 1..Len(projects) :
          /\ RoundedMean(projects[i].narrative_score,
                         NarrativeSum(TypedSubScores(projects[i])))
          /\ RoundedMean(projects[i].tokenomics_score,
                         TokenomicsSum(TypedSubScores(projects[i])))
    /\ \A a \in DOMAIN autoProjects :
          /\ RoundedMean(autoProjects[a].narrative_score, NarrativeSum(autoProjects[a]))
          /\ RoundedMean(autoProjects[a].tokenomics_score, TokenomicsSum(autoProjects[a]))

RejectionKinds == {"MissingHeaders", "InsufficientPeriods", "InvalidNumericData"}

\* the defects of a pasted text, read off its descriptor
LacksHeader(d) == d.hdr \in {"no_vd", "no_close", "only_open", "lowercase"}
Unparseable(d) == d.hdr = "empty" \/ (d.hdr = "ragged" /\ d.n > 0)
TooShort(d)    == d.n < MinPeriods
HasBadCell(d)  == d.bad # "none" /\ d.n > 0
Defective(d)   == LacksHeader(d) \/ Unparseable(d) \/ TooShort(d) \/ HasBadCell(d)

\* C6: a submission with a missing header, too few periods or a non-numeric
\* cell is rejected with one of the three error kinds, and the step that
\* rejects it, like every later step of the rejected request, leaves every
\* stored row (availability, data signal, data, omega, narrative and
\* tokenomics scores) and the stored uploads exactly as they were.
C6_RejectionLeavesAssetUntouched ==
    [][\A c \in Clients :
          /\ (req[c].phase = "idle" /\ req'[c].phase # "idle"
                 /\ Defective(req'[c].csv)) =>
                /\ req'[c].phase = "rejected"
                /\ ~req'[c].result.ok
                /\ req'[c].result.error_kind \in RejectionKinds
                /\ req'[c].result.data_score = Null
                /\ autoProjects' = autoProjects
                /\ csvData' = csvData
          /\ (req'[c].phase = "rejected" /\ req[c].phase # "rejected") =>
                req[c].phase = "idle" /\ Defective(req'[c].csv)
          /\ (req[c].phase = "rejected" /\ req'[c] # req[c]) =>
                /\ req'[c].phase = "idle"
                /\ autoProjects' = autoProjects
                /\ csvData' = csvData]_vars

C6_Witness ==
    \E c \in Clients :
       /\ req[c].phase = "rejected"
       /\ req[c].result.error_kind = "InvalidNumericData"
       /\ Complete(autoProjects[req[c].asset])
       /\ \E a \in DOMAIN autoProjects : AwaitingData(autoProjects[a])

SlopeGrid == {-200, -100, -40, -20, 0, 20, 40, 100, 200}
CorrelationGrid == {-2, 1, 2}
DivergenceInputs ==
    [price_slope : SlopeGrid, cvd_slope : SlopeGrid,
     price_r : CorrelationGrid, cvd_r : CorrelationGrid]

InitDivergence ==
    /\ ServerInit /\ ManualInit /\ TabInit
    /\ pureIn \in {<<x>> : x \in DivergenceInputs}
    /\ pureOut = <<>>

\* the score and the label as calculate_accumulation_signal pairs them
Diverge ==
    /\ pureOut = <<>>
    /\ LET x == pureIn[1]
           price_slope == Rat(x.price_slope, 1000)
           cvd_slope   == Rat(x.cvd_slope, 1000)
       IN  pureOut' = << [score |-> calculate_divergence_score(
                                        price_slope, cvd_slope,
                                        Rat(x.price_r, 2), Rat(x.cvd_r, 2)),
                          divergence_type |->
                              classify_divergence(price_slope, cvd_slope)] >>
    /\ UNCHANGED pureIn
    /\ UNCHANGED tabVars
    /\ UNCHANGED serverVars
    /\ UNCHANGED manualVars

SpecDivergence == InitDivergence /\ [][Diverge]_vars

InitValidate ==
    /\ ServerInit /\ ManualInit /\ TabInit
    /\ pureIn \in {<<d>> : d \in CsvInputs}
    /\ pureOut = <<>>

\* no analysis is made of a rejected text
NoSignal ==
    [score |-> Null, price_slope |-> SqZero, cvd_slope |-> SqZero,
     price_correlation |-> SqZero, cvd_correlation |-> SqZero,
     periods_analyzed |-> 0, divergence_type |-> ""]

\* the validator, and for an accepted text the analysis of its series
Validate ==
    /\ pureOut = <<>>
    /\ LET df == parse_and_validate_csv(CsvText(pureIn[1]))
       IN  pureOut' = << df @@ [signal |-> IF df.ok
                                          THEN calculate_accumulation_signal(df)
                                          ELSE NoSignal] >>
    /\ UNCHANGED pureIn
    /\ UNCHANGED tabVars
    /\ UNCHANGED serverVars
    /\ UNCHANGED manualVars

SpecValidate == InitValidate /\ [][Validate]_vars

(***************************************************************************)
(* The divergence rules and the header check.                              *)
(***************************************************************************)
\* trends in units of 1/2000: slope (thousandths) times |r| (halves)
PriceTrend2000 == pureIn[1].price_slope * Abs(pureIn[1].price_r)
CvdTrend2000   == pureIn[1].cvd_slope * Abs(pureIn[1].cvd_r)

\* C8: the data score is the one of the first matching rule of the chain
\* (cvd > 0.1 and price < 0.02) -> 10; (cvd > 0.02 and price < -0.02) -> 9;
\* (cvd > 0.1 and price > 0.02) -> 7; (cvd > 0.02 and price > 0.02) -> 6;
\* (cvd < -0.02 and price > 0.1) -> 3; (cvd < -0.1) -> 2; otherwise 5, with
\* strict comparisons, so that a trend exactly on a threshold does not
\* match; the score is one of 2, 3, 5, 6, 7, 9, 10.
C8_ScoreIsFirstMatchingRule ==
    pureOut # <<>> =>
       /\ pureOut[1].score \in {2, 3, 5, 6, 7, 9, 10}
       /\ pureOut[1].score =
             CASE CvdTrend2000 > 200 /\ PriceTrend2000 < 40   -> 10
               [] CvdTrend2000 > 40 /\ PriceTrend2000 < -40   -> 9
               [] CvdTrend2000 > 200 /\ PriceTrend2000 > 40   -> 7
               [] CvdTrend2000 > 40 /\ PriceTrend2000 > 40    -> 6
               [] CvdTrend2000 < -40 /\ PriceTrend2000 > 200  -> 3
               [] CvdTrend2000 < -200                         -> 2
               [] OTHER                                       -> 5

\* a trend exactly on the threshold 0.1 that a looser comparison would score 10
C8_Witness ==
    /\ pureOut # <<>>
    /\ CvdTrend2000 = 200 /\ PriceTrend2000 = -40
    /\ pureOut[1].score = 5

\* C9 (as stated): the label follows the rule that produced the score: 10
\* and 9 carry bullish_divergence, 7 and 6 confluence_bullish, 3 and 2
\* bearish_divergence, 5 neutral, and nothing else is returned.
C9_LabelFollowsScore ==
    pureOut # <<>> =>
       pureOut[1].divergence_type =
          CASE pureOut[1].score \in {10, 9} -> "bullish_divergence"
            [] pureOut[1].score \in {7, 6}  -> "confluence_bullish"
            [] pureOut[1].score \in {3, 2}  -> "bearish_divergence"
            [] OTHER                        -> "neutral"

\* C9 (amended): the label is decided by the signs of the two slopes.  Score
\* 9 always carries bullish_divergence, 7 and 6 confluence_bullish and 3
\* bearish_divergence; score 10 carries bullish_divergence or
\* confluence_bullish, score 2 bearish_divergence or confluence_bearish, and
\* score 5 any of the five labels.
C9_LabelFollowsSlopeSigns ==
    pureOut # <<>> =>
       pureOut[1].divergence_type \in
          CASE pureOut[1].score = 9        -> {"bullish_divergence"}
            [] pureOut[1].score \in {7, 6} -> {"confluence_bullish"}
            [] pureOut[1].score = 3        -> {"bearish_divergence"}
            [] pureOut[1].score = 10       -> {"bullish_divergence", "confluence_bullish"}
            [] pureOut[1].score = 2        -> {"bearish_divergence", "confluence_bearish"}
            [] OTHER -> {"bullish_divergence", "bearish_divergence",
                         "confluence_bullish", "confluence_bearish", "neutral"}

C9_Witness ==
    /\ pureOut # <<>>
    /\ pureOut[1].score = 2
    /\ pureOut[1].divergence_type = "confluence_bearish"

HeaderComplete(d) == d.hdr \in {"full", "reordered"}

\* C11: a text with the three required headers and N data lines is rejected
\* with InsufficientPeriods(found = N, required = 90) when N < 90 (0, 3, 89)
\* and is not rejected for its row count when N >= 90; exactly 90 numeric
\* rows are accepted.
C11_InsufficientBelowNinety ==
    pureOut # <<>> /\ HeaderComplete(pureIn[1]) =>
       /\ pureIn[1].n < 90 =>
             /\ ~pureOut[1].ok
             /\ pureOut[1].error_kind = "InsufficientPeriods"
             /\ pureOut[1].found = pureIn[1].n
             /\ pureOut[1].required = 90
       /\ pureIn[1].n >= 90 => pureOut[1].error_kind # "InsufficientPeriods"
       /\ pureIn[1].n = 90 /\ pureIn[1].bad = "none" => pureOut[1].ok

C11_Witness ==
    /\ pureOut # <<>>
    /\ pureIn[1].hdr = "full" /\ pureIn[1].n = 89 /\ pureIn[1].bad = "none"
    /\ pureOut[1].error_kind = "InsufficientPeriods"
    /\ pureOut[1].found = 89

\* C12: a text with the required headers and at least 90 data lines that
\* has a non-numeric close or volume-delta cell in any line, also in a line
\* before the last 90, is rejected with InvalidNumericData and yields no
\* series to analyse; without such a cell it is accepted.
C12_InvalidCellAnywhere ==
    pureOut # <<>> /\ HeaderComplete(pureIn[1]) /\ pureIn[1].n >= 90 =>
       IF pureIn[1].bad # "none"
       THEN /\ ~pureOut[1].ok
            /\ pureOut[1].error_kind = "InvalidNumericData"
            /\ pureOut[1].close = <<>> /\ pureOut[1].volume_delta = <<>>
       ELSE pureOut[1].ok

\* 91 lines, the non-numeric close in the first one, outside the last 90
C12_Witness ==
    /\ pureOut # <<>>
    /\ HeaderComplete(pureIn[1])
    /\ pureIn[1].n = 91 /\ pureIn[1].bad = "close_first"
    /\ pureOut[1].error_kind = "InvalidNumericData"

AccumulationScores == {2, 3, 5, 6, 7, 9, 10}

NoneLabel == <<"None">>

Labels ==
    { <<"A","I">>, <<"a","i">>, <<"A","i">>, <<"D","e","P","I","N">>, <<"R","W","A">>,
      <<"r","w","a">>, <<"L","1">>, <<"L","2">>, <<"l","1">>, <<"G","a","m","e","F","i">>,
      <<"I","n","f","r","a","s","t","r","u","c","t","u","r","e">>,
      <<"L","a","y","e","r"," ","1">>, <<"l","a","y","e","r","-","2">>,
      <<"G","a","m","i","n","g">>, <<"M","e","m","e">>, <<>>, NoneLabel }

MarketCaps ==
    { Null, 0, 1, 19999999, 20000000, 49999999, 50000000, 99999999, 100000000,
      199999999, 200000000, 499999999, 500000000, 999999999, 1000000000,
      2000000000 }

CirculatingSupplies == { Null, 0, 5, 9, 10, 24, 25, 49, 50, 74, 75, 89, 90, 95, 100 }
TotalSupplies == { Null, 0, -100, 40, 100 }

MetadataInputs ==
    [category : Labels, market_cap : MarketCaps,
     circulating_supply : CirculatingSupplies, total_supply : TotalSupplies]

\* None has no lower(): market_data.get('category', '').lower() raises
\* AttributeError when the row carries category None.
Raises(market_data) == market_data.category = NoneLabel

NoProject == [data_source |-> "none"]

InitMetadata ==
    /\ ServerInit /\ ManualInit /\ TabInit
    /\ pureIn \in {<<md>> : md \in MetadataInputs}
    /\ pureOut = <<>>

Process ==
    /\ pureOut = <<>>
    /\ pureOut' = << IF Raises(pureIn[1])
                     THEN [raised |-> TRUE, project |-> NoProject]
                     ELSE [raised |-> FALSE,
                           project |-> process_coingecko_data(pureIn[1])] >>
    /\ UNCHANGED pureIn
    /\ UNCHANGED tabVars
    /\ UNCHANGED serverVars
    /\ UNCHANGED manualVars

SpecMetadata == InitMetadata /\ [][Process]_vars

\* AS-01a: AI, DePIN, RWA score 9; L1, L2, GameFi, Infrastructure score 7;
\* every other label scores 4.
SectorOfLabel(label) ==
    LET l == IF label = NoneLabel THEN <<>> ELSE StrLower(label)
    IN  IF l \in { <<"a","i">>, <<"d","e","p","i","n">>, <<"r","w","a">> } THEN 9
        ELSE IF l \in { <<"l","1">>, <<"l","2">>, <<"g","a","m","e","f","i">>,
                        <<"i","n","f","r","a","s","t","r","u","c","t","u","r","e">> }
             THEN 7
        ELSE 4

\* C14: the sector score of every label, the empty and the absent one
\* included, is computed without an error and is 9 for AI, DePIN, RWA, 7 for
\* L1, L2, GameFi, Infrastructure, in any letter case, and 4 otherwise.
C14_SectorTableIsTotal ==
    pureOut # <<>> =>
       /\ ~pureOut[1].raised
       /\ pureOut[1].project.sector_strength = SectorOfLabel(pureIn[1].category)

\* AS-02a: the market-cap buckets, each with its exclusive upper bound.
ValuationBuckets ==
    << <<20000000, 10>>, <<50000000, 9>>, <<100000000, 8>>, <<200000000, 7>>,
       <<500000000, 5>>, <<1000000000, 3>> >>

FirstBucket(market_cap) ==
    LET below == { i \in 1..Len(ValuationBuckets) : market_cap < ValuationBuckets[i][1] }
    IN  IF below = {} THEN 1
        ELSE ValuationBuckets[CHOOSE i \in below : \A j \in below : i <= j][2]

\* C15: the valuation_potential of an ingested row is 1 when market_cap is
\* null and otherwise, for every market_cap >= 0, zero included, the score
\* of the first bucket whose exclusive upper bound exceeds it, else 1.
C15_ValuationIsFirstBucket ==
    pureOut # <<>> /\ ~pureOut[1].raised =>
       pureOut[1].project.valuation_potential =
          IF pureIn[1].market_cap = Null THEN 1 ELSE FirstBucket(pureIn[1].market_cap)

\* AS-02c: the circulation-ratio buckets, each with its inclusive lower
\* bound in percent.
SupplyBuckets == << <<90, 10>>, <<75, 9>>, <<50, 7>>, <<25, 5>>, <<10, 2>> >>

RiskOfRatio(circulating, total) ==
    LET met == { i \in 1..Len(SupplyBuckets) :
                    circulating * 100 >= SupplyBuckets[i][1] * total }
    IN  IF met = {} THEN 1
        ELSE SupplyBuckets[CHOOSE i \in met : \A j \in met : i <= j][2]

Known(x) == x # Null

\* C16: the supply_risk of a row is always computed: it is 1 when total is
\* null or not positive, 1 when circulating is unavailable, and otherwise the
\* score of the highest bucket whose inclusive lower bound the ratio
\* circulating/total reaches (10, 9, 7, 5, 2, else 1); on a fixed positive
\* total the function never decreases as circulating grows.
C16_SupplyRiskIsTotal ==
    pureOut # <<>> /\ ~pureOut[1].raised =>
       LET c == pureIn[1].circulating_supply
           t == pureIn[1].total_supply
           r == pureOut[1].project.supply_risk
       IN  /\ r \in {1, 2, 5, 7, 9, 10}
           /\ ~Known(t) \/ t <= 0 => r = 1
           /\ ~Known(c) => r = 1
           /\ Known(t) /\ t > 0 /\ Known(c) =>
                 /\ r = RiskOfRatio(c, t)
                 /\ r = calculate_supply_risk(c, t)
                 /\ \A c2 \in CirculatingSupplies \ {Null} :
                       c <= c2 => r <= calculate_supply_risk(c2, t)
           /\ Known(c) => calculate_supply_risk(c, t) = r

\* exactly 90% of the supply circulating
C16_Witness ==
    /\ pureOut # <<>> /\ ~pureOut[1].raised
    /\ pureIn[1].circulating_supply = 90 /\ pureIn[1].total_supply = 100
    /\ pureOut[1].project.supply_risk = 10

\* C17: every automated row, in every reachable state, has backing_team,
\* value_proposition and token_utility equal to 5, whatever metadata was
\* ingested and whatever series was analysed for it.
C17_NeutralDefaultsAreFixed ==
    \A a \in DOMAIN autoProjects :
       /\ autoProjects[a].backing_team = 5
       /\ autoProjects[a].value_proposition = 5
       /\ autoProjects[a].token_utility = 5

\* an analysed asset whose metadata was ingested again afterwards
C17_Witness ==
    \E a \in DOMAIN autoProjects :
       /\ Complete(autoProjects[a])
       /\ lastOp[a] = "ingest"
       /\ autoProjects[a].backing_team = 5
       /\ autoProjects[a].value_proposition = 5
       /\ autoProjects[a].token_utility = 5

(***************************************************************************)
(* The card of an automated project.  A template literal prints a string   *)
(* as it is and a number as its numeral; null prints as the word "null".   *)
(***************************************************************************)
Text(str) == [numeric |-> FALSE, text |-> str, number |-> 0]
Interpolate(x) ==
    IF IsNum(x) THEN [numeric |-> TRUE, text |-> "", number |-> x]
    ELSE Text("null")

renderAutomatedProjectCard_placeholder(project) ==
    LET isAwaitingData == ~project.has_data_score
    IN  [omega_score_value |-> IF isAwaitingData THEN Interpolate(0)
                               ELSE Interpolate(project.omega_score),
         omega_score_label |-> IF isAwaitingData THEN "Awaiting Data" ELSE "Omega Score",
         narrative         |-> Interpolate(project.narrative_score),
         tokenomics        |-> Interpolate(project.tokenomics_score),
         data              |-> IF isAwaitingData THEN Text("--")
                               ELSE Interpolate(project.data_score),
         action            |-> IF isAwaitingData THEN "Add Data" ELSE "Update Data"]
renderAutomatedProjectCard(project) ==
    LET isAwaitingData == ~project.has_data_score
        omegaScoreDisplay ==
            IF isAwaitingData
            THEN [value |-> Text("N/A"), label |-> "Awaiting Data"]
            ELSE [value |-> Interpolate(project.omega_score), label |-> "Omega Score"]
    IN  [omega_score_value |-> omegaScoreDisplay.value,
         omega_score_label |-> omegaScoreDisplay.label,
         narrative         |-> Interpolate(project.narrative_score),
         tokenomics        |-> Interpolate(project.tokenomics_score),
         data              |-> IF isAwaitingData THEN Text("--")
                               ELSE Interpolate(project.data_score),
         action            |-> IF isAwaitingData THEN "Add Data" ELSE "Update Data"]

\* C18: the card of an automated asset that awaits data shows 'N/A' with the
\* label 'Awaiting Data' as its Omega Score and '--' as its Data score; a
\* number is shown as Omega Score only on the card of a Complete asset, and
\* then it is the stored omega score.
C18_AwaitingCardShowsSentinel ==
    \A a \in DOMAIN autoProjects :
       LET card == renderAutomatedProjectCard(autoProjects[a])
       IN  /\ AwaitingData(autoProjects[a]) =>
                 /\ card.omega_score_value = Text("N/A")
                 /\ card.omega_score_label = "Awaiting Data"
                 /\ card.data = Text("--")
           /\ card.omega_score_value.numeric =>
                 /\ Complete(autoProjects[a])
                 /\ card.omega_score_value.number = autoProjects[a].omega_score

\* one card awaiting data next to one showing a number
C18_Witness ==
    /\ \E a \in DOMAIN autoProjects :
          /\ AwaitingData(autoProjects[a])
          /\ renderAutomatedProjectCard(autoProjects[a]).omega_score_value = Text("N/A")
    /\ \E a \in DOMAIN autoProjects :
          /\ Complete(autoProjects[a])
          /\ renderAutomatedProjectCard(autoProjects[a]).omega_score_value.numeric

\* a score on the 1-10 scale, in units of 1/Unit
InScale(x) == IsNum(x) /\ Unit <= x /\ x <= 10 * Unit
Absent(x)  == x = Null

FlatClose(d) == \A i \in 1..d.n : CloseAt(d.shape, i) = CloseAt(d.shape, 1)
ConstantPositiveDelta(d) ==
    /\ VolumeDeltaAt(d.shape, 1) > 0
    /\ \A i \in 1..d.n : VolumeDeltaAt(d.shape, i) = VolumeDeltaAt(d.shape, 1)
FlatAccumulation(d) ==
    /\ HeaderComplete(d) /\ d.n = 90 /\ d.bad = "none"
    /\ FlatClose(d) /\ ConstantPositiveDelta(d)

\* C20 (as stated): a 90-row series with one close price and one positive
\* volume delta in all rows scores 10, has a CVD slope above 0.1 and is
\* labelled bullish_divergence.
C20_FlatPriceScoresTen ==
    pureOut # <<>> /\ FlatAccumulation(pureIn[1]) =>
       /\ pureOut[1].ok
       /\ pureOut[1].signal.price_slope.sgn = 0
       /\ 10 * VolumeDeltaAt(pureIn[1].shape, 1) > CellScale
       /\ pureOut[1].signal.score = 10
       /\ pureOut[1].signal.divergence_type = "bullish_divergence"

\* C20: such a series is accepted, its price slope is 0, its CVD slope is
\* the constant volume delta and its label is bullish_divergence; its score
\* is 10 when the constant exceeds 0.1 and 5 when it is below 0.1; at
\* exactly 0.1 the score is one of the two.
C20_FlatPriceScoresByDelta ==
    pureOut # <<>> /\ FlatAccumulation(pureIn[1]) =>
       /\ pureOut[1].ok
       /\ pureOut[1].signal.periods_analyzed = 90
       /\ pureOut[1].signal.price_slope.sgn = 0
       /\ SqLe(pureOut[1].signal.cvd_slope, Rat(VolumeDeltaAt(pureIn[1].shape, 1), CellScale))
       /\ SqGe(pureOut[1].signal.cvd_slope, Rat(VolumeDeltaAt(pureIn[1].shape, 1), CellScale))
       /\ pureOut[1].signal.divergence_type = "bullish_divergence"
       /\ 10 * VolumeDeltaAt(pureIn[1].shape, 1) > CellScale => pureOut[1].signal.score = 10
       /\ 10 * VolumeDeltaAt(pureIn[1].shape, 1) < CellScale => pureOut[1].signal.score = 5
       /\ pureOut[1].signal.score \in {5, 10}

\* a volume delta of 0.05 in every row: score 5
C20_Witness ==
    /\ pureOut # <<>> /\ FlatAccumulation(pureIn[1])
    /\ pureIn[1].shape = "flat_faint_accumulation"
    /\ pureOut[1].signal.score = 5
    /\ pureOut[1].signal.divergence_type = "bullish_divergence"

FlatDelta(d) == \A i \in 1..d.n : VolumeDeltaAt(d.shape, i) = 0
FlatSeries(d) ==
    /\ HeaderComplete(d) /\ d.n >= 90 /\ d.bad = "none"
    /\ FlatClose(d) \/ FlatDelta(d)

\* C21 (as stated): a series whose close or whose cumulative volume delta
\* is constant is accepted and classified by the neutral branch: score 5,
\* label neutral.
C21_FlatSeriesIsNeutral ==
    pureOut # <<>> /\ FlatSeries(pureIn[1]) =>
       /\ pureOut[1].ok
       /\ pureOut[1].signal.score = 5
       /\ pureOut[1].signal.divergence_type = "neutral"

\* C21: a series whose close or whose cumulative volume delta is constant
\* is accepted, and the constant side is fitted with slope 0 and
\* correlation 0.  With a constant cumulative volume delta the score is 5
\* and the label neutral.  With a constant close only, the other side
\* decides: a volume delta above 0.1 in every row scores 10 and one below
\* -0.1 scores 2, labelled bullish_divergence and bearish_divergence.
C21_FlatSideHasNoTrend ==
    pureOut # <<>> /\ FlatSeries(pureIn[1]) =>
       LET sig == pureOut[1].signal
           c   == VolumeDeltaAt(pureIn[1].shape, 1)
       IN  /\ pureOut[1].ok
           /\ sig.periods_analyzed = 90
           /\ FlatClose(pureIn[1]) =>
                 sig.price_slope.sgn = 0 /\ sig.price_correlation = SqZero
           /\ FlatDelta(pureIn[1]) =>
                 /\ sig.cvd_slope.sgn = 0 /\ sig.cvd_correlation = SqZero
                 /\ sig.score = 5 /\ sig.divergence_type = "neutral"
           /\ FlatClose(pureIn[1]) /\ 10 * c > CellScale =>
                 sig.score = 10 /\ sig.divergence_type = "bullish_divergence"
           /\ FlatClose(pureIn[1]) /\ 10 * c < -CellScale =>
                 sig.score = 2 /\ sig.divergence_type = "bearish_divergence"

\* a rising close over a constant cumulative volume delta: score 5, neutral
C21_Witness ==
    /\ pureOut # <<>> /\ FlatSeries(pureIn[1])
    /\ pureIn[1].shape = "rising_flat"
    /\ pureOut[1].signal.cvd_correlation = SqZero
    /\ pureOut[1].signal.score = 5
    /\ pureOut[1].signal.divergence_type = "neutral"

\* C22: a click on Next with a blank required field on the step shown
\* leaves currentStep as it is and shows 'All fields are required before
\* proceeding.'; currentStep grows only by one and only from a step whose
\* required fields are all filled, and it stays within 1..3.
C22_NextNeedsFilledStep ==
    /\ currentStep \in 1..3
    /\ [][
          /\ (nextStep /\ ~validateCurrentStep) =>
               (/\ currentStep' = currentStep
                /\ errorMessage' = "All fields are required before proceeding.")
          /\ (nextStep /\ validateCurrentStep /\ currentStep < 3) =>
               (currentStep' = currentStep + 1)
          /\ (currentStep' > currentStep) =>
               (currentStep' = currentStep + 1 /\ validateCurrentStep)
          /\ currentStep' \in 1..3
       ]_vars

\* Next was clicked on the first step with Sector Strength blank
C22_Witness ==
    /\ currentStep = 1
    /\ form.sector_strength = "" /\ form.value_proposition = "7"
    /\ errorMessage = "All fields are required before proceeding."

C24_DisplayedMatchesActiveFilters ==
    LET Matches(project) ==
            /\ filter.sector # "" => project.hot_sector = filter.sector
            /\ filter.min # "" => project.omega_score >= ParseFloat(filter.min)
            /\ filter.max # "" => project.omega_score <= ParseFloat(filter.max)
    IN  filteredProjects = SelectSeq(projects, Matches)

\* C25: for a valid series of N >= 90 rows the analysis is that of its last
\* 90 rows alone, in their order: the fits are those of the window's close
\* values and of the running sum of the window's volume deltas, which starts
\* at the window's first row; periods_analyzed is 90; a row before the
\* window does not change the result.
C25_AnalysisIsOfLastNinetyRows ==
    pureOut # <<>> /\ HeaderComplete(pureIn[1]) /\ pureIn[1].n >= 90
                  /\ pureIn[1].bad = "none" =>
       LET d      == pureIn[1]
           signal == pureOut[1].signal
           close  == [i \in 1..90 |-> CloseAt(d.shape, d.n - 90 + i)]
           delta  == [i \in 1..90 |-> VolumeDeltaAt(d.shape, d.n - 90 + i)]
           cvd    == [i \in 1..90 |-> SumRange(delta, 1, i)]
           price  == linregress(close)
           volume == linregress(cvd)
       IN  /\ pureOut[1].ok
           /\ cvd[1] = delta[1]
           /\ signal.periods_analyzed = 90
           /\ signal.price_slope = price.slope
           /\ signal.cvd_slope = volume.slope
           /\ signal.score = calculate_divergence_score(price.slope, volume.slope,
                                                        price.r, volume.r)
           /\ signal.divergence_type = classify_divergence(price.slope, volume.slope)
           /\ d.shape = "late_accumulation" /\ d.n = 91 =>
                 /\ signal.price_slope.sgn = 0
                 /\ signal.score = 10
                 /\ signal.divergence_type = "bullish_divergence"

\* a 91-row series whose first row alone carries a price spike and a large
\* negative volume delta was analysed as a flat accumulation
C25_Witness ==
    /\ pureOut # <<>>
    /\ pureIn[1] = [hdr |-> "full", n |-> 91, shape |-> "late_accumulation",
                    bad |-> "none"]
    /\ pureOut[1].signal.periods_analyzed = 90
    /\ pureOut[1].signal.price_slope.sgn = 0
    /\ pureOut[1].signal.score = 10

MaxTasks == 2
MaxPending == 2

NonTerminal == {"PENDING", "PROGRESS"}
StartOutcomes == {"task_id", "no_task_id", "request_failed"}

NewTask == [status |-> "PENDING", interval |-> TRUE, pending |-> 0, reloads |-> 0]

\* a click on Refresh and the answer to the POST that starts the task
refreshAutomatedProjects(outcome) ==
    /\ ~refreshDisabled
    /\ Len(tasks) < MaxTasks
    /\ IF outcome = "task_id"
       THEN /\ refreshDisabled' = TRUE
            /\ tasks' = Append(tasks, NewTask)
            /\ errorMessage' = ""
       ELSE /\ refreshDisabled' = FALSE
            /\ tasks' = tasks
            /\ errorMessage' = IF outcome = "no_task_id"
                               THEN "Failed to start background refresh task."
                               ELSE "Failed to trigger refresh task. Please try again."
    /\ UNCHANGED <<selectedProjects, bulk>>
    /\ UNCHANGED <<currentStep, form, projects, nextDisabled, storage,
                   filteredProjects, filter>>
    /\ UNCHANGED serverVars
    /\ UNCHANGED pureVars

\* the background task moves on
TaskRuns(t, status) ==
    /\ t \in 1..Len(tasks)
    /\ tasks[t].status \in NonTerminal
    /\ status # tasks[t].status
    /\ status # "PENDING"
    /\ tasks' = [tasks EXCEPT ![t].status = status]
    /\ UNCHANGED <<refreshDisabled, selectedProjects, bulk>>
    /\ UNCHANGED manualVars
    /\ UNCHANGED serverVars
    /\ UNCHANGED pureVars

\* the interval of task t fires: the callback sends its status request
PollTick(t) ==
    /\ t \in 1..Len(tasks)
    /\ tasks[t].interval
    /\ tasks[t].pending < MaxPending
    /\ tasks' = [tasks EXCEPT ![t].pending = @ + 1]
    /\ UNCHANGED <<refreshDisabled, selectedProjects, bulk>>
    /\ UNCHANGED manualVars
    /\ UNCHANGED serverVars
    /\ UNCHANGED pureVars

\* a pending callback of task t gets its answer, or its request fails
PollReturns(t, answered) ==
    /\ t \in 1..Len(tasks)
    /\ tasks[t].pending > 0
    /\ LET task == tasks[t]
       IN  IF ~answered
           THEN /\ refreshDisabled' = FALSE
                /\ tasks' = [tasks EXCEPT ![t].pending = @ - 1,
                                          ![t].interval = FALSE]
           ELSE IF task.status = "SUCCESS"
           THEN /\ refreshDisabled' = FALSE
                /\ tasks' = [tasks EXCEPT ![t].pending = @ - 1,
                                          ![t].interval = FALSE,
                                          ![t].reloads = @ + 1]
           ELSE IF task.status = "FAILURE"
           THEN /\ refreshDisabled' = FALSE
                /\ tasks' = [tasks EXCEPT ![t].pending = @ - 1,
                                          ![t].interval = FALSE]
           ELSE /\ refreshDisabled' = refreshDisabled
                /\ tasks' = [tasks EXCEPT ![t].pending = @ - 1]
    /\ UNCHANGED <<selectedProjects, bulk>>
    /\ UNCHANGED manualVars
    /\ UNCHANGED serverVars
    /\ UNCHANGED pureVars

NextRefresh ==
    \/ \E outcome \in StartOutcomes : refreshAutomatedProjects(outcome)
    \/ \E t \in 1..MaxTasks, status \in {"PROGRESS", "SUCCESS", "FAILURE"} :
          TaskRuns(t, status)
    \/ \E t \in 1..MaxTasks : PollTick(t)
    \/ \E t \in 1..MaxTasks, answered \in BOOLEAN : PollReturns(t, answered)

SpecRefresh == Init /\ [][NextRefresh]_vars

\* C27: while a started task is in a non-terminal status and is still being
\* polled the Refresh button is disabled; a start that fails or returns no
\* task_id leaves the button enabled and starts no polling.
C27_DisabledWhileTaskRuns ==
    /\ [](\A t \in 1..Len(tasks) :
             tasks[t].status \in NonTerminal /\ tasks[t].interval => refreshDisabled)
    /\ [][\A outcome \in {"no_task_id", "request_failed"} :
             refreshAutomatedProjects(outcome) => ~refreshDisabled' /\ tasks' = tasks]_vars

\* C28: loadAutomatedProjects is called at most once for a task, however
\* many status requests of the task are pending at the same time.
C28_ReloadedOncePerTask ==
    \A t \in 1..Len(tasks) : tasks[t].reloads <= 1

\* C29: a project is added to the watchlist only by a submission made on
\* the last wizard step; a submit event received while currentStep < 3
\* creates no project.
C29_AddedOnLastStepOnly ==
    [][Len(projects') > Len(projects) => currentStep = 3]_vars

(***************************************************************************)
(* Bulk analysis on the automated tab.  bulk.listed holds the ids of       *)
(* this.automatedProjects, bulk.ids the ids selected when the run began,   *)
(* bulk.queue those the loop has not reached yet.                          *)
(***************************************************************************)
\* the text bulkAnalyzeProjects posts for every project: a header and three
\* data lines
placeholderCSV_ninety_rows == Csv("full", MinPeriods, "flat_accumulation", "none")
placeholderCSV == Csv("full", 3, "rising_accumulation", "none")

\* GET /api/v2/projects/automated; not issued while a bulk run is looping
loadAutomatedProjects ==
    /\ ~bulk.running
    /\ bulk' = [bulk EXCEPT !.listed = DOMAIN autoProjects]
    /\ UNCHANGED <<refreshDisabled, tasks, selectedProjects>>
    /\ UNCHANGED manualVars
    /\ UNCHANGED serverVars
    /\ UNCHANGED pureVars

toggleProjectSelection(projectId) ==
    /\ selectedProjects' = IF projectId \in selectedProjects
                           THEN selectedProjects \ {projectId}
                           ELSE selectedProjects \cup {projectId}
    /\ UNCHANGED <<refreshDisabled, tasks, bulk>>
    /\ UNCHANGED manualVars
    /\ UNCHANGED serverVars
    /\ UNCHANGED pureVars

\* a click on Bulk Analyze: the selection is copied, in some order
bulkAnalyzeProjects ==
    /\ ~bulk.running
    /\ IF selectedProjects = {}
       THEN /\ errorMessage' = "No projects selected for bulk analysis."
            /\ bulk' = bulk
       ELSE /\ errorMessage' = errorMessage
            /\ \E selectedProjectIds \in
                      [1..Cardinality(selectedProjects) -> selectedProjects] :
                  /\ \A i, j \in DOMAIN selectedProjectIds :
                        selectedProjectIds[i] = selectedProjectIds[j] => i = j
                  /\ bulk' = [bulk EXCEPT !.running = TRUE,
                                          !.queue = selectedProjectIds,
                                          !.ids = selectedProjects,
                                          !.completed = 0, !.failed = 0]
    /\ UNCHANGED <<refreshDisabled, tasks, selectedProjects>>
    /\ UNCHANGED <<currentStep, form, projects, nextDisabled, storage,
                   filteredProjects, filter>>
    /\ UNCHANGED serverVars
    /\ UNCHANGED pureVars

\* One turn of the loop.  An id that is not in the list is skipped; for the
\* others the placeholder text is posted and the store handles it as any
\* other submission.  A rejection reaches the front end as an HTTP error
\* (failed) or as an answer describing the error (completed).
BulkStep(http_ok) ==
    /\ bulk.running /\ bulk.queue # <<>>
    /\ LET projectId == Head(bulk.queue)
           v == Validated(placeholderCSV)
       IN  IF projectId \notin bulk.listed
           THEN /\ bulk' = [bulk EXCEPT !.queue = Tail(@)]
                /\ UNCHANGED serverVars
           ELSE IF projectId \notin DOMAIN autoProjects
           THEN /\ bulk' = [bulk EXCEPT !.queue = Tail(@), !.failed = @ + 1]
                /\ UNCHANGED serverVars
           ELSE IF ~v.ok
           THEN /\ LockFree(projectId)
                /\ bulk' = IF http_ok
                           THEN [bulk EXCEPT !.queue = Tail(@), !.completed = @ + 1]
                           ELSE [bulk EXCEPT !.queue = Tail(@), !.failed = @ + 1]
                /\ UNCHANGED serverVars
           ELSE /\ LockFree(projectId)
                /\ LET sig == SignalOf(placeholderCSV)
                       row == ScoredRow([autoProjects[projectId] EXCEPT
                                            !.accumulation_signal = sig.score,
                                            !.data_score = Unit * sig.score], sig)
                   IN  /\ autoProjects' = [autoProjects EXCEPT ![projectId] = row]
                       /\ csvData' = (projectId :> [raw_data |-> placeholderCSV,
                                          data_score |-> row.data_score,
                                          omega_score |-> row.omega_score]) @@ csvData
                       /\ lastOp' = [lastOp EXCEPT ![projectId] = "analysis"]
                /\ bulk' = [bulk EXCEPT !.queue = Tail(@), !.completed = @ + 1]
                /\ UNCHANGED <<lock, req, dataWriter, omegaWriter>>
    /\ UNCHANGED <<refreshDisabled, tasks, selectedProjects>>
    /\ UNCHANGED manualVars
    /\ UNCHANGED pureVars

\* after the loop: the list is loaded again, the selection cleared and the
\* outcome shown
BulkReturn ==
    /\ bulk.running /\ bulk.queue = <<>>
    /\ bulk' = [bulk EXCEPT !.running = FALSE, !.listed = DOMAIN autoProjects]
    /\ selectedProjects' = {}
    /\ errorMessage' = IF bulk.failed = 0 THEN ""
                       ELSE "Completed with failed analyses."
    /\ UNCHANGED <<refreshDisabled, tasks>>
    /\ UNCHANGED <<currentStep, form, projects, nextDisabled, storage,
                   filteredProjects, filter>>
    /\ UNCHANGED serverVars
    /\ UNCHANGED pureVars

\* what the ingestion job and the operator's own submissions contribute
BulkIngestRows == {md \in IngestRows : md.total_supply = 100}
BulkSubmissions == {Csv("full", MinPeriods, "flat_accumulation", "none")}

NextBulk ==
    \/ \E a \in Assets, md \in BulkIngestRows : Ingest(a, md)
    \/ \E a \in Assets, d \in BulkSubmissions : handleCSVAnalysis("c1", a, d)
    \/ WriteDataScore("c1")
    \/ WriteOmegaScore("c1")
    \/ Ack("c1")
    \/ loadAutomatedProjects
    \/ \E a \in Assets : toggleProjectSelection(a)
    \/ bulkAnalyzeProjects
    \/ \E http_ok \in BOOLEAN : BulkStep(http_ok)
    \/ BulkReturn

SpecBulk == Init /\ [][NextBulk]_vars

====
